---- MODULE Spec2Model ----
(***************************************************************************)
(* A model of the Flappy Bird game loop of "Source Code/main.py": the      *)
(* event handlers of main(), the per-frame body (physics, collision,       *)
(* pipe movement, scoring, high score) and the EventLogger.                *)
(*                                                                         *)
(* Output.  The CSV file and the mixer are write-only: the model keeps     *)
(* what each step appends to the file (written) and plays (played), and    *)
(* running totals of the rows and sounds that end an attempt.              *)
(*                                                                         *)
(* Numbers.  The code mixes Python ints and floats; every float it         *)
(* computes is an exact binary fraction, so the model keeps them as        *)
(* scaled integers:                                                        *)
(*   bird_movement       in quarters of a pixel per frame (GRAVITY = 1/4), *)
(*   score, high_score   in halves of a point (the code adds 0.5),         *)
(*   PIPE_SPEED          as the fraction PIPE_SPEED_NUM / PIPE_SPEED_DEN.  *)
(* A pygame.Rect holds integers: assigning a float to one of its           *)
(* attributes converts it with a C (int) cast, i.e. truncation toward 0.   *)
(***************************************************************************)
EXTENDS Integers, Sequences, FiniteSets, TLC

(***************************************************************************)
(* GLOBAL CONFIGURATION (main.py 29-51)                                    *)
(***************************************************************************)
QUARTER == 4                    \* velocity unit: 1/QUARTER pixel per frame
GRAVITY == 1                    \* 0.25 px/frame, in quarters
FLAP_STRENGTH == 8              \* px/frame
PIPE_GAP == 300
BASE_SCREEN_WIDTH == 576
BASE_SCREEN_HEIGHT == 1024
BASE_PIPE_SPEED == 4
BASE_BIRD_X == 100
BASE_BIRD_Y == 512
BASE_FLOOR_COLLISION_Y == 900
BASE_CEILING_COLLISION_Y == -100
BASE_PIPE_SPAWN_X == 700
BASE_PIPE_HEIGHTS == <<400, 600, 800>>

\* Native sizes of the sprites (bluebird-midflap.png, pipe-green.png); the
\* fallback branch of the asset loader spells the same numbers out.
BIRD_IMAGE_WIDTH == 34
BIRD_IMAGE_HEIGHT == 24
PIPE_IMAGE_WIDTH == 52
PIPE_IMAGE_HEIGHT == 320

(***************************************************************************)
(* Bounds of the exploration.                                              *)
(***************************************************************************)
MaxRestarts == 2        \* restarts in one session
MaxPipePairs == 1       \* pipe pairs in pipe_list at one time
MaxFlightTicks == 50    \* frames of the no-input flight scenario
MaxPairs == 2           \* pipe pairs spawned in the attempt of the pipe scenario
MaxClock == 2           \* the wall clock reads 0..MaxClock milliseconds
MaxRows == 2            \* rows logged by the loop in the logger scenario
MaxAttempts == 1        \* attempts started in the logger scenario
MaxFlagChanges == 4     \* changes of the remote flag: two pulses false -> true -> false
MaxSelfExits == 1       \* children that end by themselves (the player quits)
MaxTyped == 2           \* characters typed into one field when the keys are recorded
MaxPayloadLen == 2      \* characters of a free-text payload in the CSV scenario
MaxAttemptId == 10      \* logger.attempt_id in the CSV scenario: two digits
MaxCsvRows == 2         \* records written in the CSV scenario
MaxHalves == 3          \* the score passed to log_pipe_passed, in halves of a point
MaxStripped == 2        \* whitespace characters strip() removes from a value

\* The displays explored: <<current_w, current_h>> of pygame.display.Info().
SmallDisplay == <<6, 32>>
BaseDisplay == <<576, 1024>>

VARIABLES
    SCREEN_WIDTH, SCREEN_HEIGHT,  \* display size read at start-up
    pc,                     \* "start" | "loop" | "exit": where main() is
    bird_movement,          \* vertical velocity, in quarters of a pixel
    game_active,
    previous_game_active,
    score,                  \* in halves of a point
    high_score,             \* in halves of a point
    pipe_list,              \* sequence of rectangles
    bird_rectangle,         \* rectangle [x, y, w, h]
    bird_index,
    attempt_id,             \* logger.attempt_id
    writer,                 \* logger.writer: "none" | "open"
    csv_file,               \* logger.csv_file: "none" | "open" | "closed"
    written,                \* the rows the last step appended to the CSV file
    played,                 \* the sounds the last step played
    totals,                 \* history: COLLISION rows written, death sounds played
    restarts,               \* history: restarts performed in the session
    last_event,             \* history: the event the last step handled
    ticks,                  \* history: frames drawn (flight scenario only)
    bird_frames,            \* len(bird_frames): 3 loaded, 1 in fallback mode
    now,                    \* time.time(), in milliseconds
    game_start_time,        \* logger.game_start_time, in milliseconds
    disk,                   \* "ok" | "failing": whether a write to the file succeeds
    file,                   \* the rows of the CSV file, timestamps included
    write_failed,           \* history: a log_event call has failed to write
    flag,                   \* the remote flag as check_redis_flag reads it
    flag_changes,           \* history: how often the remote flag has changed
    proc,                   \* control.main's proc: 0 is None, else a child
    children,               \* the status of every child started so far
    stops,                  \* history: stop_process calls that returned
    self_exits,             \* history: children that exited by themselves
    supervisor,             \* "polling" | "dead": where control.main is
    iteration,              \* what the last poll iteration did
    fields,                 \* session form: len(field["value"]) of the 3 fields
    current_field,          \* session form: index of the field that has the focus
    done,                   \* session form: the loop's exit flag
    metadata,               \* the lengths the form returned, <<>> before it returns
    csv_text,               \* CSV scenario: the characters of the file
    passed_rows             \* CSV scenario: the rows passed to log_event

vars == <<SCREEN_WIDTH, SCREEN_HEIGHT, pc, bird_movement, game_active,
          previous_game_active, score, high_score, pipe_list, bird_rectangle,
          bird_index, attempt_id, writer, csv_file, written, played, totals,
          restarts, last_event, ticks, bird_frames, now, game_start_time,
          disk, file, write_failed, flag, flag_changes, proc, children, stops,
          self_exits, supervisor, iteration, fields, current_field, done,
          metadata, csv_text, passed_rows>>

\* What the event handlers and the frame body of main.py never change.
logger_world == <<now, game_start_time, disk, file, write_failed>>
control_vars == <<flag, flag_changes, proc, children, stops, self_exits,
                  supervisor, iteration>>
form_vars == <<fields, current_field, done, metadata>>
csv_vars == <<csv_text, passed_rows>>
outside == <<bird_frames, logger_world, control_vars, form_vars, csv_vars>>

(***************************************************************************)
(* Arithmetic helpers                                                      *)
(***************************************************************************)
\* Python int(n / d) for d > 0: truncation toward zero.
Trunc(n, d) == IF n >= 0 THEN n \div d ELSE -((-n) \div d)

scale_x(x) == Trunc(x * SCREEN_WIDTH, BASE_SCREEN_WIDTH)
scale_y(y) == Trunc(y * SCREEN_HEIGHT, BASE_SCREEN_HEIGHT)

\* PIPE_SPEED = BASE_PIPE_SPEED * (SCREEN_WIDTH / BASE_SCREEN_WIDTH)
PIPE_SPEED_NUM == BASE_PIPE_SPEED * SCREEN_WIDTH
PIPE_SPEED_DEN == BASE_SCREEN_WIDTH

\* rotozoom(image, 0, SPRITE_SCALE), SPRITE_SCALE = 2.0 * (SCREEN_HEIGHT /
\* BASE_SCREEN_HEIGHT): the size of the zoomed surface, at least 1 pixel.
SpriteSize(n) ==
    LET s == Trunc(n * 2 * SCREEN_HEIGHT, BASE_SCREEN_HEIGHT)
    IN  IF s < 1 THEN 1 ELSE s

pipe_height == [i \in 1..Len(BASE_PIPE_HEIGHTS) |-> scale_y(BASE_PIPE_HEIGHTS[i])]

(***************************************************************************)
(* pygame.Rect                                                             *)
(***************************************************************************)
Rect(x, y, w, h) == [x |-> x, y |-> y, w |-> w, h |-> h]
centerx(r) == r.x + (r.w \div 2)
centery(r) == r.y + (r.h \div 2)
top(r) == r.y
bottom(r) == r.y + r.h
SetCenterx(r, v) == [r EXCEPT !.x = v - (r.w \div 2)]
SetCentery(r, v) == [r EXCEPT !.y = v - (r.h \div 2)]
RectCenter(w, h, cx, cy) == Rect(cx - (w \div 2), cy - (h \div 2), w, h)
RectMidtop(w, h, cx, ty) == Rect(cx - (w \div 2), ty, w, h)
RectMidbottom(w, h, cx, by) == Rect(cx - (w \div 2), by - h, w, h)
colliderect(a, b) ==
    /\ a.w # 0 /\ a.h # 0 /\ b.w # 0 /\ b.h # 0
    /\ a.x < b.x + b.w /\ a.y < b.y + b.h
    /\ a.x + a.w > b.x /\ a.y + a.h > b.y

\* The asset try-block (main.py 653-688) builds three bird frames; the except
\* branch (690-731) builds one, and never assigns bird_index.
LOADED_FRAMES == 3
FALLBACK_FRAMES == 1
Unbound == -1           \* bird_index when the name was never assigned
Fallback == bird_frames = FALLBACK_FRAMES

\* pygame.Surface((int(n * (SCREEN_WIDTH / BASE_SCREEN_WIDTH)), ...)): the
\* placeholder surfaces of the fallback mode.
FallbackWidth(n) == Trunc(n * SCREEN_WIDTH, BASE_SCREEN_WIDTH)
FallbackHeight(n) == Trunc(n * SCREEN_HEIGHT, BASE_SCREEN_HEIGHT)

BirdWidth == IF Fallback THEN FallbackWidth(BIRD_IMAGE_WIDTH)
                         ELSE SpriteSize(BIRD_IMAGE_WIDTH)
BirdHeight == IF Fallback THEN FallbackHeight(BIRD_IMAGE_HEIGHT)
                          ELSE SpriteSize(BIRD_IMAGE_HEIGHT)
PipeWidth == IF Fallback THEN FallbackWidth(PIPE_IMAGE_WIDTH)
                         ELSE SpriteSize(PIPE_IMAGE_WIDTH)
PipeHeight == IF Fallback THEN FallbackHeight(PIPE_IMAGE_HEIGHT)
                          ELSE SpriteSize(PIPE_IMAGE_HEIGHT)

\* The fixed origin of the bird: center=(scale_x(BASE_BIRD_X), scale_y(BASE_BIRD_Y)).
BirdOriginX == scale_x(BASE_BIRD_X)
BirdOriginY == scale_y(BASE_BIRD_Y)

(***************************************************************************)
(* Core logic                                                              *)
(***************************************************************************)
\* Mutant: the top pipe is created one pixel right of the bottom pipe.
create_pipe_staggered(i) ==
    LET random_pipe_position == pipe_height[i]
        spawn_x == scale_x(BASE_PIPE_SPAWN_X)
        bottom_pipe == RectMidtop(PipeWidth, PipeHeight, spawn_x, random_pipe_position)
        top_pipe == RectMidbottom(PipeWidth, PipeHeight, spawn_x + 1,
                                  random_pipe_position - PIPE_GAP)
    IN  <<bottom_pipe, top_pipe>>

\* create_pipe with random.choice(pipe_height) = pipe_height[i].
create_pipe(i) ==
    LET random_pipe_position == pipe_height[i]
        spawn_x == scale_x(BASE_PIPE_SPAWN_X)
        bottom_pipe == RectMidtop(PipeWidth, PipeHeight, spawn_x, random_pipe_position)
        top_pipe == RectMidbottom(PipeWidth, PipeHeight, spawn_x,
                                  random_pipe_position - PIPE_GAP)
    IN  <<bottom_pipe, top_pipe>>

\* pipe.centerx -= PIPE_SPEED: the float difference, converted back to an int.
MovePipe(pipe) ==
    SetCenterx(pipe, Trunc(centerx(pipe) * PIPE_SPEED_DEN - PIPE_SPEED_NUM,
                           PIPE_SPEED_DEN))

\* Mutant: pipes whose left edge has left the screen are dropped.
move_pipes_on_screen(pipes) ==
    SelectSeq([i \in 1..Len(pipes) |-> MovePipe(pipes[i])], LAMBDA pipe : pipe.x >= 0)

move_pipes(pipes) == [i \in 1..Len(pipes) |-> MovePipe(pipes[i])]

\* Mutant: the boundaries are tested before the pipes.
check_boundary_first(pipes, bird) ==
    IF top(bird) <= scale_y(BASE_CEILING_COLLISION_Y) THEN "ceiling"
    ELSE IF bottom(bird) >= scale_y(BASE_FLOOR_COLLISION_Y) THEN "floor"
    ELSE IF \E i \in 1..Len(pipes) : colliderect(bird, pipes[i]) THEN "pipe"
    ELSE "none"

\* check_collision: the collision type, "none" for (True, None).
check_collision(pipes, bird) ==
    IF \E i \in 1..Len(pipes) : colliderect(bird, pipes[i]) THEN "pipe"
    ELSE IF top(bird) <= scale_y(BASE_CEILING_COLLISION_Y) THEN "ceiling"
    ELSE IF bottom(bird) >= scale_y(BASE_FLOOR_COLLISION_Y) THEN "floor"
    ELSE "none"

\* check_collision's side effect: death_sound.play() when a collision is found
\* and the game is still active.
DeathSound(active, collision_type) ==
    IF collision_type # "none" /\ active THEN <<"death">> ELSE <<>>

update_score(current_score, current_high_score) ==
    IF current_score > current_high_score THEN current_score
    ELSE current_high_score

\* Mutant: the scoring test without its upper bound.
PipeIsBehind(pipe) == centerx(pipe) <= scale_x(BASE_BIRD_X)

\* The scoring test of one pipe, after this frame's movement:
\* pipe.centerx <= bird_x < pipe.centerx + PIPE_SPEED.
PipeScores(pipe) ==
    LET bird_x == scale_x(BASE_BIRD_X)
    IN  /\ centerx(pipe) <= bird_x
        /\ bird_x * PIPE_SPEED_DEN < centerx(pipe) * PIPE_SPEED_DEN + PIPE_SPEED_NUM

(***************************************************************************)
(* EventLogger                                                             *)
(***************************************************************************)
Str(s) == [t |-> "str", s |-> s, n |-> 0]
Float(halves) == [t |-> "float", s |-> "", n |-> halves]

\* Mutant: log_event without the test for a missing writer.
log_event_unguarded(rows, aid, event, info) ==
    Append(rows, [attempt_id |-> aid, event |-> event, info |-> info])

\* log_event: one row <<attempt_id, event, additional_info>> when there is a
\* writer, nothing otherwise.  aid is logger.attempt_id at the call.  When
\* writerow() or flush() raises, the except branch prints a warning and
\* returns: no row, and self.writer stays as it is.
log_event(rows, aid, event, info) ==
    IF writer = "none" THEN rows
    ELSE IF disk = "failing" THEN rows
    ELSE Append(rows, [attempt_id |-> aid, event |-> event, info |-> info])

log_collision(rows, aid, collision_type) ==
    log_event(rows, aid, "COLLISION", Str(collision_type))
log_pipe_passed(rows, aid, s) == log_event(rows, aid, "PIPE_PASSED", Float(s))
log_key_press(rows, aid, key_name) == log_event(rows, aid, "KEY_PRESS", Str(key_name))
\* Mutant: quitting logs nothing.
log_quit_nothing(rows, aid) == rows

log_quit(rows, aid) == log_event(rows, aid, "QUIT", Str(""))

\* Mutant: closing a file that is closed already fails.
close_once(f) == IF f = "open" THEN "closed" ELSE IF f = "closed" THEN "raised" ELSE f

\* close(): closes the file when there is one.
close(f) == IF f = "open" THEN "closed" ELSE f

\* The rows of kind event among rows.
RowsOf(rows, event) == {i \in 1..Len(rows) : rows[i].event = event}
\* How often sound occurs in sounds.
PlaysOf(sounds, sound) == Cardinality({i \in 1..Len(sounds) : sounds[i] = sound})

\* An event of the queue (type, key), or the frame that follows the queue.
Event(type, key) == [type |-> type, key |-> key]

(***************************************************************************)
(* Initial state: the module-level initialisation (main.py 641-744), all   *)
(* assets loaded, before main() runs.                                      *)
(***************************************************************************)
\* What lies outside the game process at its start: the wall clock, the disk
\* and an empty log file.
InitLoggerWorld ==
    /\ now = 0
    /\ game_start_time = 0
    /\ disk = "ok"
    /\ file = <<>>
    /\ write_failed = FALSE

\* control.main before its loop: proc = None, no child started.
InitControl ==
    /\ flag = FALSE
    /\ flag_changes = 0
    /\ proc = 0
    /\ children = <<>>
    /\ stops = 0
    /\ self_exits = 0
    /\ supervisor = "polling"
    /\ iteration = [error |-> "none", flag |-> "unread", proc_is_running |-> FALSE,
                    heartbeat |-> FALSE, started |-> FALSE, stopped |-> "no"]

\* collect_session_metadata at its start: three empty fields, focus on the
\* first.
InitForm ==
    /\ fields = <<0, 0, 0>>
    /\ current_field = 0
    /\ done = FALSE
    /\ metadata = <<>>

\* No file yet, and nothing passed to the logger.
InitCsv ==
    /\ csv_text = <<>>
    /\ passed_rows = <<>>

\* frames: len(bird_frames); index: bird_index after the asset block.
InitWith(display, frames, index) ==
    /\ SCREEN_WIDTH = display[1]
    /\ SCREEN_HEIGHT = display[2]
    /\ bird_frames = frames
    /\ InitLoggerWorld
    /\ InitControl
    /\ InitForm
    /\ InitCsv
    /\ pc = "start"
    /\ bird_movement = 0
    /\ game_active = FALSE
    /\ previous_game_active = FALSE
    /\ score = 0
    /\ high_score = 0
    /\ pipe_list = <<>>
    /\ bird_rectangle = RectCenter(BirdWidth, BirdHeight, BirdOriginX, BirdOriginY)
    /\ bird_index = index
    /\ attempt_id = 0
    /\ writer = "none"
    /\ csv_file = "none"
    /\ written = <<>>
    /\ played = <<>>
    /\ totals = [collision_rows |-> 0, death_sounds |-> 0]
    /\ restarts = 0
    /\ last_event = Event("NONE", "")
    /\ ticks = 0

InitOn(display) == InitWith(display, LOADED_FRAMES, 0)

Init == InitOn(SmallDisplay)

\* Start-up after an asset failed to load: before the bird image is loaded
\* bird_index is never assigned, after it bird_index is 0.
InitFallback ==
    \E display \in {SmallDisplay, BaseDisplay} : \E index \in {Unbound, 0} :
        InitWith(display, FALLBACK_FRAMES, index)

(***************************************************************************)
(* main(): the logger is created and the SESSION_INFO row is logged with   *)
(* attempt_id 0.  opened: whether the CSV file could be created.           *)
(***************************************************************************)
StartSessionStep(opened) ==
    /\ pc = "start"
    /\ last_event' = Event("START", "")
    /\ writer' = IF opened THEN "open" ELSE "none"
    /\ csv_file' = IF opened THEN "open" ELSE "none"
    /\ written' = IF opened
                    THEN <<[attempt_id |-> 0, event |-> "SESSION_INFO",
                            info |-> Str("subject_id=;run=;comments=")]>>
                    ELSE <<>>
    /\ attempt_id' = 0
    /\ pc' = "loop"
    /\ UNCHANGED <<outside, SCREEN_WIDTH, SCREEN_HEIGHT, bird_movement, game_active,
                   previous_game_active, score, high_score, pipe_list,
                   bird_rectangle, bird_index, played, totals, restarts, ticks>>

(***************************************************************************)
(* Event handling: one action per event taken from pygame.event.get().     *)
(* Every event first passes the New Attempt Mechanic.                      *)
(***************************************************************************)
NewAttempt == ~previous_game_active /\ game_active
AttemptNow == IF NewAttempt THEN attempt_id + 1 ELSE attempt_id
PreviousNow == IF NewAttempt THEN TRUE ELSE previous_game_active

\* Mutant: every key restarts and flaps, not SPACE alone.
IsAnyKey(key) == TRUE

IsSpace(key) == key = "SPACE"
IsEscape(key) == key = "ESCAPE"

\* Mutant: an additive impulse, bird_movement -= FLAP_STRENGTH alone.
FlapAdditive(before) == before - FLAP_STRENGTH * QUARTER

\* Flap Mechanic: bird_movement = 0; bird_movement -= FLAP_STRENGTH.
FlapVelocity(before) == 0 - FLAP_STRENGTH * QUARTER

Flap ==
    /\ bird_movement' = FlapVelocity(bird_movement)
    /\ played' = <<"flap">>
    /\ previous_game_active' = PreviousNow
    /\ UNCHANGED <<game_active, pipe_list, bird_rectangle, score, restarts>>

\* Restart Mechanic, the same for keyboard and pointer.
\* Mutant: the restart forgets pipe_list.clear().
RestartPipesKept(pipes) == pipes

RestartPipes(pipes) == <<>>                      \* pipe_list.clear()
RestartBird(bird) == SetCentery(SetCenterx(bird, BirdOriginX), BirdOriginY)
RestartScore(s) == 0

Restart ==
    /\ game_active' = TRUE
    /\ pipe_list' = RestartPipes(pipe_list)
    /\ bird_rectangle' = RestartBird(bird_rectangle)
    /\ bird_movement' = 0
    /\ score' = RestartScore(score)
    /\ previous_game_active' = FALSE
    /\ restarts' = restarts + 1
    /\ played' = <<>>

\* logger.log_quit(); logger.close(); pygame.quit(); sys.exit(): the rows and
\* the closed file remain, the process and all its variables are gone.
Exit(rows, event) ==
    /\ written' = rows
    /\ last_event' = event
    /\ csv_file' = close(csv_file)
    /\ pc' = "exit"
    /\ bird_movement' = 0
    /\ game_active' = FALSE
    /\ previous_game_active' = FALSE
    /\ score' = 0
    /\ high_score' = 0
    /\ pipe_list' = <<>>
    /\ bird_rectangle' = RectCenter(BirdWidth, BirdHeight, BirdOriginX, BirdOriginY)
    /\ bird_index' = 0
    /\ attempt_id' = 0
    /\ played' = <<>>
    /\ totals' = [collision_rows |-> 0, death_sounds |-> 0]
    /\ restarts' = 0
    /\ ticks' = 0
    /\ UNCHANGED <<outside, SCREEN_WIDTH, SCREEN_HEIGHT, writer>>

\* An exception nobody catches ends main(): no QUIT row, no logger.close();
\* the rows written so far remain, the process and its variables are gone.
Crash(event) ==
    /\ written' = <<>>
    /\ last_event' = event
    /\ pc' = "crashed"
    /\ bird_movement' = 0
    /\ game_active' = FALSE
    /\ previous_game_active' = FALSE
    /\ score' = 0
    /\ high_score' = 0
    /\ pipe_list' = <<>>
    /\ bird_rectangle' = RectCenter(BirdWidth, BirdHeight, BirdOriginX, BirdOriginY)
    /\ bird_index' = 0
    /\ attempt_id' = 0
    /\ played' = <<>>
    /\ totals' = [collision_rows |-> 0, death_sounds |-> 0]
    /\ restarts' = 0
    /\ ticks' = 0
    /\ UNCHANGED <<outside, SCREEN_WIDTH, SCREEN_HEIGHT, writer, csv_file>>

\* pygame.QUIT
Quit ==
    /\ pc = "loop"
    /\ Exit(log_quit(<<>>, AttemptNow), Event("QUIT", ""))

\* pygame.KEYDOWN with event.key = key
KeyDownStep(key) ==
    LET pressed == IF game_active THEN log_key_press(<<>>, AttemptNow, key) ELSE <<>>
    IN
    /\ pc = "loop"
    /\ IF IsEscape(key)
          THEN Exit(log_quit(pressed, AttemptNow), Event("KEYDOWN", key))
          ELSE /\ attempt_id' = AttemptNow
               /\ written' = pressed
               /\ last_event' = Event("KEYDOWN", key)
               /\ IF IsSpace(key) /\ game_active
                     THEN Flap
                     ELSE IF IsSpace(key) /\ ~game_active
                     THEN Restart
                     ELSE /\ previous_game_active' = PreviousNow
                          /\ played' = <<>>
                          /\ UNCHANGED <<game_active, pipe_list, bird_rectangle,
                                         score, restarts, bird_movement>>
               /\ UNCHANGED <<outside, SCREEN_WIDTH, SCREEN_HEIGHT, pc, high_score,
                              bird_index, writer, csv_file, totals, ticks>>

\* pygame.MOUSEBUTTONDOWN
MouseButtonDownStep ==
    /\ pc = "loop"
    /\ last_event' = Event("MOUSEBUTTONDOWN", "")
    /\ attempt_id' = AttemptNow
    /\ written' = IF game_active
                    THEN log_key_press(<<>>, AttemptNow, "MOUSE_CLICK")
                    ELSE <<>>
    /\ IF game_active THEN Flap ELSE Restart
    /\ UNCHANGED <<outside, SCREEN_WIDTH, SCREEN_HEIGHT, pc, high_score, bird_index, writer,
                   csv_file, totals, ticks>>

\* SPAWNPIPE timer: pipe_list.extend(create_pipe())
SpawnPipeStep ==
    /\ pc = "loop"
    /\ last_event' = Event("SPAWNPIPE", "")
    /\ \E i \in 1..Len(BASE_PIPE_HEIGHTS) : pipe_list' = pipe_list \o create_pipe(i)
    /\ attempt_id' = AttemptNow
    /\ previous_game_active' = PreviousNow
    /\ written' = <<>>
    /\ played' = <<>>
    /\ UNCHANGED <<outside, SCREEN_WIDTH, SCREEN_HEIGHT, pc, bird_movement, game_active,
                   score, high_score, bird_rectangle, bird_index, writer, csv_file,
                   totals, restarts, ticks>>

\* BIRDFLAP timer: next animation frame; bird_animation() builds the new
\* rectangle around (scale_x(BASE_BIRD_X), bird_rectangle.centery).
bird_animation == RectCenter(BirdWidth, BirdHeight, scale_x(BASE_BIRD_X),
                             centery(bird_rectangle))

\* `if bird_index < 2: bird_index += 1 else: bird_index = 0'
NextBirdIndex == IF bird_index < 2 THEN bird_index + 1 ELSE 0

\* Reading a name that was never assigned raises NameError; bird_animation()
\* reads bird_frames[bird_index], IndexError beyond the end of the list.
BirdFlapRaises == bird_index = Unbound \/ NextBirdIndex >= bird_frames

BirdFlap ==
    /\ pc = "loop"
    /\ IF BirdFlapRaises
          THEN Crash(Event("BIRDFLAP", ""))
          ELSE /\ last_event' = Event("BIRDFLAP", "")
               /\ bird_index' = NextBirdIndex
               /\ bird_rectangle' = bird_animation
               /\ attempt_id' = AttemptNow
               /\ previous_game_active' = PreviousNow
               /\ written' = <<>>
               /\ played' = <<>>
               /\ UNCHANGED <<outside, SCREEN_WIDTH, SCREEN_HEIGHT, pc,
                              bird_movement, game_active, score, high_score,
                              pipe_list, writer, csv_file, totals, restarts,
                              ticks>>

\* Any other event (KEYUP, MOUSEMOTION, ...): only the New Attempt Mechanic.
OtherEvent ==
    /\ pc = "loop"
    /\ last_event' = Event("OTHER", "")
    /\ attempt_id' = AttemptNow
    /\ previous_game_active' = PreviousNow
    /\ written' = <<>>
    /\ played' = <<>>
    /\ UNCHANGED <<outside, SCREEN_WIDTH, SCREEN_HEIGHT, pc, bird_movement, game_active,
                   score, high_score, pipe_list, bird_rectangle, bird_index,
                   writer, csv_file, totals, restarts, ticks>>

(***************************************************************************)
(* The frame body that follows the event loop (main.py 835-892).           *)
(***************************************************************************)
\* Mutant: the gameplay branch also runs after the attempt has ended.
FrameAlwaysActive == TRUE

\* Which branch the frame takes: `if game_active:'.
FrameIsActive == game_active

\* Mutant: gravity applied twice per frame.
GravityTwice(v) == v + 2 * GRAVITY

\* Mutant: the frame leaves the bird where it is.
FallNowhere(bird, v) == bird

\* 1.-2. Physics: bird_movement += GRAVITY; bird_rectangle.centery += bird_movement.
Gravity(v) == v + GRAVITY
Fall(bird, v) == SetCentery(bird, Trunc(centery(bird) * QUARTER + v, QUARTER))

\* Mutant: score -= 0.5.
TakeHalfPoint(s) == s - 1

\* Mutant: score += 1 for every pipe rectangle.
AddWholePoint(s) == s + 2

\* score += 0.5
AddHalfPoint(s) == s + 1

\* 5. Scoring System: the loop over the moved pipes, from pipe i on.
\* st = [score, rows, sounds]: the score, the rows written, the sounds played.
RECURSIVE ScoreLoop(_, _, _)
ScoreLoop(pipes, i, st) ==
    IF i > Len(pipes) THEN st
    ELSE IF PipeScores(pipes[i])
    THEN LET s == AddHalfPoint(st.score)
         IN  IF s % 2 = 0            \* score % 1 == 0
             THEN ScoreLoop(pipes, i + 1,
                            [score |-> s,
                             rows |-> log_pipe_passed(st.rows, attempt_id, s),
                             sounds |-> Append(st.sounds, "score")])
             ELSE ScoreLoop(pipes, i + 1, [st EXCEPT !.score = s])
    ELSE ScoreLoop(pipes, i + 1, st)

\* Mutant: the pipes move before the collision is tested.
TestedPipesMoved(before, moved) == moved

\* 3. Collision Detection runs before 4. Obstacle Update: check_collision
\* reads pipe_list as it is before this frame's move_pipes.
TestedPipes(before, moved) == before

ActiveFrame ==
    LET movement == Gravity(bird_movement)
        bird == Fall(bird_rectangle, movement)
        collision_type == check_collision(TestedPipes(pipe_list, move_pipes(pipe_list)),
                                          bird)
        collision_result == collision_type = "none"
        collided == IF collision_result THEN <<>>
                    ELSE log_collision(<<>>, attempt_id, collision_type)
        moved == move_pipes(pipe_list)
        scored == ScoreLoop(moved, 1,
                            [score |-> score, rows |-> collided,
                             sounds |-> DeathSound(game_active, collision_type)])
    IN
    /\ bird_movement' = movement
    /\ bird_rectangle' = bird
    /\ game_active' = collision_result
    /\ pipe_list' = moved
    /\ score' = scored.score
    /\ written' = scored.rows
    /\ played' = scored.sounds
    /\ totals' = [collision_rows |-> totals.collision_rows
                                      + Cardinality(RowsOf(scored.rows, "COLLISION")),
                  death_sounds |-> totals.death_sounds
                                    + PlaysOf(scored.sounds, "death")]
    /\ UNCHANGED high_score

\* Game Over State: high_score = update_score(score, high_score)
InactiveFrame ==
    /\ high_score' = update_score(score, high_score)
    /\ written' = <<>>
    /\ played' = <<>>
    /\ UNCHANGED <<bird_movement, bird_rectangle, game_active, pipe_list, score,
                   totals>>

FrameStep ==
    /\ pc = "loop"
    /\ last_event' = Event("FRAME", "")
    /\ IF FrameIsActive THEN ActiveFrame ELSE InactiveFrame
    /\ UNCHANGED <<outside, SCREEN_WIDTH, SCREEN_HEIGHT, pc, previous_game_active,
                   bird_index, attempt_id, writer, csv_file, restarts>>

(***************************************************************************)
(* The session: every interleaving of events and frames, within the bounds.*)
(***************************************************************************)
Keys == {"SPACE", "ESCAPE", "A"}

\* The session of the game specification has a log file.
StartSession == StartSessionStep(TRUE)

\* A press that would start an attempt beyond the bound is not offered.
MayPress(restarting) == (restarting /\ ~game_active) => restarts < MaxRestarts

KeyDown == \E key \in Keys : MayPress(IsSpace(key)) /\ KeyDownStep(key)
MouseButtonDown == MayPress(TRUE) /\ MouseButtonDownStep
SpawnPipe == Len(pipe_list) < 2 * MaxPipePairs /\ SpawnPipeStep
Frame == FrameStep /\ UNCHANGED ticks

Next ==
    \/ StartSession
    \/ Quit
    \/ KeyDown
    \/ MouseButtonDown
    \/ SpawnPipe
    \/ BirdFlap
    \/ OtherEvent
    \/ Frame

Spec == Init /\ [][Next]_vars

(***************************************************************************)
(* The flight: a fresh session on the small or on the base display, one    *)
(* press, then frames with no further input and no pipe; ticks counts the  *)
(* frames since the press.  The BIRDFLAP timer and other non-input events  *)
(* may arrive at any time.                                                 *)
(***************************************************************************)
InitFlight == \E display \in {SmallDisplay, BaseDisplay} : InitOn(display)

FlightKeyDown == restarts = 0 /\ KeyDownStep("SPACE")
FlightMouseButtonDown == restarts = 0 /\ MouseButtonDownStep
FlightFrame == restarts = 1 /\ ticks < MaxFlightTicks /\ FrameStep /\ ticks' = ticks + 1

NextFlight ==
    \/ StartSession
    \/ FlightKeyDown
    \/ FlightMouseButtonDown
    \/ BirdFlap
    \/ OtherEvent
    \/ FlightFrame

SpecFlight == InitFlight /\ [][NextFlight]_vars

(***************************************************************************)
(* The pipe scenario: one attempt on the small display, started by one     *)
(* press and played without a flap, in which the SPAWNPIPE timer fires up  *)
(* to MaxPairs times.                                                      *)
(***************************************************************************)
PairsSpawnPipe == restarts = 1 /\ Len(pipe_list) < 2 * MaxPairs /\ SpawnPipeStep

NextPairs ==
    \/ StartSession
    \/ FlightKeyDown
    \/ FlightMouseButtonDown
    \/ PairsSpawnPipe
    \/ BirdFlap
    \/ OtherEvent
    \/ Frame

SpecPairs == Init /\ [][NextPairs]_vars

(***************************************************************************)
(* The growth scenario: as the pipe scenario, with the SPAWNPIPE timer     *)
(* firing before the first attempt and after its end as well.              *)
(***************************************************************************)
GrowthSpawnPipe == Len(pipe_list) < 2 * MaxPairs /\ SpawnPipeStep

NextGrowth ==
    \/ StartSession
    \/ FlightKeyDown
    \/ FlightMouseButtonDown
    \/ GrowthSpawnPipe
    \/ BirdFlap
    \/ OtherEvent
    \/ Frame

SpecGrowth == Init /\ [][NextGrowth]_vars

(***************************************************************************)
(* The session without a log file: EventLogger could not create its file.  *)
(* One attempt, played with every input, up to the quit.                   *)
(***************************************************************************)
StartSessionNoFile == StartSessionStep(FALSE)
PlayKeyDown == game_active /\ \E key \in Keys : KeyDownStep(key)
PlayMouseButtonDown == game_active /\ MouseButtonDownStep

NextNoFile ==
    \/ StartSessionNoFile
    \/ Quit
    \/ FlightKeyDown
    \/ FlightMouseButtonDown
    \/ PlayKeyDown
    \/ PlayMouseButtonDown
    \/ SpawnPipe
    \/ BirdFlap
    \/ OtherEvent
    \/ Frame

SpecNoFile == Init /\ [][NextNoFile]_vars

(***************************************************************************)
(* The fallback scenario: one attempt, as in the flight scenario, of a     *)
(* session that started with placeholder assets.                           *)
(***************************************************************************)
SpecFallback == InitFallback /\ [][NextFlight]_vars

(***************************************************************************)
(* The logger scenario: EventLogger (main.py 467-589) as main() calls it,  *)
(* with the wall clock that time.time() reads and a disk whose writes may  *)
(* fail.  The game state that the logger never reads stays as it is.       *)
(***************************************************************************)
beyond_logger == <<SCREEN_WIDTH, SCREEN_HEIGHT, bird_movement, game_active,
                   previous_game_active, score, high_score, pipe_list,
                   bird_rectangle, bird_index, played, totals, restarts, ticks,
                   bird_frames, control_vars, form_vars>>
loop_state == <<beyond_logger, csv_vars>>

\* timestamp = int((time.time() - self.game_start_time) * 1000)
Elapsed == now - game_start_time

\* The row as writerow() puts it into the file.
Stamp(row) == [timestamp |-> Elapsed, attempt_id |-> row.attempt_id,
               event |-> row.event]

\* One call of logger.log_event(event, info).
LogEvent(event, info) ==
    LET rows == log_event(<<>>, attempt_id, event, info)
    IN  /\ written' = rows
        /\ file' = file \o [i \in 1..Len(rows) |-> Stamp(rows[i])]
        /\ write_failed' = (write_failed \/ (writer # "none" /\ disk = "failing"))
        /\ UNCHANGED writer

\* logger = EventLogger(...): game_start_time = time.time(); the file is
\* opened and gets its header, or, when that raises, writer = None.
LoggerCreate ==
    /\ pc = "start"
    /\ \E opened \in BOOLEAN :
          /\ writer' = IF opened THEN "open" ELSE "none"
          /\ csv_file' = IF opened THEN "open" ELSE "none"
    /\ game_start_time' = now
    /\ attempt_id' = 0
    /\ written' = <<>>
    /\ last_event' = Event("CREATE", "")
    /\ pc' = "created"
    /\ UNCHANGED <<loop_state, now, disk, file, write_failed>>

\* logger.log_event("SESSION_INFO", ...), before the loop starts.
LogSessionInfo ==
    /\ pc = "created"
    /\ LogEvent("SESSION_INFO", Str("subject_id=;run=;comments="))
    /\ last_event' = Event("START", "")
    /\ pc' = "loop"
    /\ UNCHANGED <<loop_state, attempt_id, csv_file, now, game_start_time, disk>>

\* New Attempt Mechanic: logger.attempt_id += 1
LogNewAttempt ==
    /\ pc = "loop"
    /\ attempt_id < MaxAttempts
    /\ attempt_id' = attempt_id + 1
    /\ written' = <<>>
    /\ last_event' = Event("OTHER", "")
    /\ UNCHANGED <<loop_state, logger_world, pc, writer, csv_file>>

\* log_key_press, log_collision or log_pipe_passed, called from the loop.
LogInLoop ==
    /\ pc = "loop"
    /\ Len(file) < MaxRows
    /\ \E event \in {"KEY_PRESS", "COLLISION", "PIPE_PASSED"} :
          /\ LogEvent(event, Str(""))
          /\ last_event' = Event(event, "")
    /\ UNCHANGED <<loop_state, pc, attempt_id, csv_file, now, game_start_time, disk>>

\* logger.log_quit(); logger.close(); pygame.quit(); sys.exit()
LogQuit ==
    /\ pc = "loop"
    /\ LogEvent("QUIT", Str(""))
    /\ csv_file' = close(csv_file)
    /\ last_event' = Event("QUIT", "")
    /\ pc' = "exit"
    /\ UNCHANGED <<loop_state, attempt_id, now, game_start_time, disk>>

\* The wall clock between two calls: time passes, or the clock is set
\* (by hand or by a time service) and reads an earlier time.
ClockChanges ==
    /\ pc # "exit"
    /\ \E t \in 0..MaxClock : t # now /\ now' = t
    /\ UNCHANGED <<loop_state, pc, attempt_id, writer, csv_file, written,
                   last_event, game_start_time, disk, file, write_failed>>

\* Writes start to fail (disk full, medium removed) or succeed again.
DiskChanges ==
    /\ pc # "exit"
    /\ disk' = IF disk = "ok" THEN "failing" ELSE "ok"
    /\ UNCHANGED <<loop_state, pc, attempt_id, writer, csv_file, written,
                   last_event, now, game_start_time, file, write_failed>>

NextLogger == LoggerCreate \/ LogSessionInfo \/ LogNewAttempt \/ LogInLoop
              \/ LogQuit \/ ClockChanges \/ DiskChanges
SpecLogger == Init /\ [][NextLogger]_vars

\* logger.close() called once more, after the close() of the quit.
CloseAgain ==
    /\ pc = "exit"
    /\ csv_file' = close(csv_file)
    /\ written' = <<>>
    /\ last_event' = Event("CLOSE", "")
    /\ UNCHANGED <<loop_state, logger_world, pc, attempt_id, writer>>

NextClose == NextLogger \/ CloseAgain
SpecClose == Init /\ [][NextClose]_vars

(***************************************************************************)
(* The session form, collect_session_metadata (main.py 335-454): three     *)
(* text fields, of which the model keeps the lengths.  The form runs       *)
(* before the logger exists; events of one pygame.event.get() batch that   *)
(* follow the one that set done are still handled.  In SpecForm the        *)
(* values grow to their full lengths and last_event only tells that the    *)
(* form has handled an event; in SpecFormKeys last_event names the key and *)
(* a value holds at most MaxTyped characters.                              *)
(***************************************************************************)
FIELD_COUNT == 3            \* len(fields)
SHORT_FIELD_MAX == 24
COMMENTS_MAX == 80

beyond_form == <<SCREEN_WIDTH, SCREEN_HEIGHT, bird_movement, game_active,
                 previous_game_active, score, high_score, pipe_list,
                 bird_rectangle, bird_index, attempt_id, writer, csv_file,
                 written, played, totals, restarts, ticks, bird_frames,
                 logger_world, control_vars, csv_vars>>

\* max_len = 24 if current_field < 2 else 80
max_len(field) == IF field < 2 THEN SHORT_FIELD_MAX ELSE COMMENTS_MAX

\* Mutant: a character is appended to a value that is full already.
FitsOrFull(length, field) == length <= max_len(field)

\* `if len(fields[current_field]["value"]) < max_len:'
Fits(length, field) == length < max_len(field)

\* Mutant: TAB stops at the last field.
TabStops(field) == IF field < FIELD_COUNT - 1 THEN field + 1 ELSE field

\* current_field = (current_field + 1) % len(fields)
TabTarget(field) == (field + 1) % FIELD_COUNT

\* event.key, and for any other key what event.unicode holds.
FormKeys == {"TAB", "RETURN", "ESCAPE", "BACKSPACE", "CHAR"}
FormChars == {"printable", "unprintable", "empty"}

\* The form is on the screen.
InForm == pc = "start" /\ metadata = <<>>

\* The value of the field with the focus, changed by n characters.
Resize(n) == [fields EXCEPT ![current_field + 1] = @ + n]

\* pygame.KEYDOWN in the form
FormKeyDownStep(key, char) ==
    /\ InForm
    /\ CASE key = "TAB" ->
               /\ current_field' = TabTarget(current_field)
               /\ UNCHANGED <<fields, done>>
         [] key = "RETURN" ->
               IF current_field < FIELD_COUNT - 1
               THEN /\ current_field' = current_field + 1
                    /\ UNCHANGED <<fields, done>>
               ELSE /\ done' = TRUE
                    /\ UNCHANGED <<fields, current_field>>
         [] key = "ESCAPE" ->
               /\ done' = TRUE
               /\ UNCHANGED <<fields, current_field>>
         [] key = "BACKSPACE" ->       \* value[:-1]
               /\ fields' = IF fields[current_field + 1] > 0 THEN Resize(-1) ELSE fields
               /\ UNCHANGED <<current_field, done>>
         [] OTHER ->                   \* char and char.isprintable()
               /\ fields' = IF char = "printable"
                                /\ Fits(fields[current_field + 1], current_field)
                             THEN Resize(1) ELSE fields
               /\ UNCHANGED <<current_field, done>>
    /\ UNCHANGED <<beyond_form, pc, metadata>>

FormKeyDown ==
    /\ \E key \in FormKeys : \E char \in FormChars : FormKeyDownStep(key, char)
    /\ last_event' = Event("FORM", "")

\* The same handler, the key remembered and the typing bounded.
FormKeyPress ==
    \E key \in FormKeys : \E char \in FormChars :
        /\ key = "CHAR" => fields[current_field + 1] < MaxTyped
        /\ FormKeyDownStep(key, char)
        /\ last_event' = Event("KEYDOWN", key)

\* pygame.QUIT in the form: pygame.quit(); sys.exit()
FormQuit ==
    /\ InForm
    /\ last_event' = Event("QUIT", "")
    /\ pc' = "exit"
    /\ fields' = <<0, 0, 0>>
    /\ current_field' = 0
    /\ done' = FALSE
    /\ UNCHANGED <<beyond_form, metadata>>

\* Any other event, the timers included, is taken from the queue and dropped.
FormOtherEvent ==
    /\ InForm
    /\ last_event' = Event("FORM", "")
    /\ UNCHANGED <<beyond_form, form_vars, pc>>

\* `while not done' ends: the stripped values are returned.  strip() removes
\* the whitespace at both ends of a value, here lead[i] characters of field i.
FormReturns ==
    /\ InForm
    /\ done
    /\ \E lead \in [1..FIELD_COUNT -> 0..MaxStripped] :
          /\ \A i \in 1..FIELD_COUNT : lead[i] <= fields[i]
          /\ metadata' = [i \in 1..FIELD_COUNT |-> fields[i] - lead[i]]
    /\ last_event' = Event("RETURN", "")
    /\ fields' = <<0, 0, 0>>
    /\ current_field' = 0
    /\ done' = FALSE
    /\ UNCHANGED <<beyond_form, pc>>

NextForm == FormKeyDown \/ FormQuit \/ FormOtherEvent \/ FormReturns
SpecForm == Init /\ [][NextForm]_vars

NextFormKeys == FormKeyPress \/ FormQuit \/ FormOtherEvent \/ FormReturns
SpecFormKeys == Init /\ [][NextFormKeys]_vars

(***************************************************************************)
(* The CSV scenario: the text that csv.writer (main.py 501-506, 531-538)   *)
(* puts into the file for the rows passed to log_event, character by       *)
(* character, and what reading the closed file back gives.  A text is a    *)
(* sequence of characters; the info of a row is Str(text) or Float(halves).*)
(* The reading side is not part of main.py: it is csv.reader with the      *)
(* dialect the file was written in, and a conversion of each column back   *)
(* to the type log_event was given.                                        *)
(***************************************************************************)
\* The characters of a free text: a letter, the delimiter, the quote
\* character and a space.
FreeTexts ==
    UNION {[1..n -> {"a", ",", "\"", " "}] : n \in 0..MaxPayloadLen}

\* The event kinds main.py logs after the session starts.
Kinds == {"SESSION_INFO", "KEY_PRESS", "COLLISION", "PIPE_PASSED", "QUIT"}

\* The event name, a str, as its characters.
KindText(event) ==
    CASE event = "SESSION_INFO" ->
             <<"S", "E", "S", "S", "I", "O", "N", "_", "I", "N", "F", "O">>
      [] event = "KEY_PRESS" ->
             <<"K", "E", "Y", "_", "P", "R", "E", "S", "S">>
      [] event = "COLLISION" ->
             <<"C", "O", "L", "L", "I", "S", "I", "O", "N">>
      [] event = "PIPE_PASSED" ->
             <<"P", "I", "P", "E", "_", "P", "A", "S", "S", "E", "D">>
      [] event = "QUIT" ->
             <<"Q", "U", "I", "T">>

\* The header row of __init__.
Header ==
    << <<"u", "n", "i", "x", "_", "t", "i", "m", "e", "s", "t", "a", "m",
       "p">>,
       <<"t", "i", "m", "e", "s", "t", "a", "m", "p">>,
       <<"a", "t", "t", "e", "m", "p", "t", "_", "i", "d">>,
       <<"e", "v", "e", "n", "t">>,
       <<"a", "d", "d", "i", "t", "i", "o", "n", "a", "l", "_", "i", "n",
       "f", "o">> >>

Digit(d) == <<"0", "1", "2", "3", "4", "5", "6", "7", "8", "9">>[d + 1]

\* str(n) of an int n >= 0
RECURSIVE str_int(_)
str_int(n) == IF n < 10 THEN <<Digit(n)>> ELSE Append(str_int(n \div 10), Digit(n % 10))

\* repr(x) of the float x = halves / 2: "1.0", "1.5"
repr_float(halves) ==
    str_int(halves \div 2) \o <<".", IF halves % 2 = 0 THEN "0" ELSE "5">>

\* What csv.writer makes of a value before quoting: a str as it is, a
\* number through str() or repr().
CellText(info) == IF info.t = "float" THEN repr_float(info.n) ELSE info.s

\* Mutant: no field is ever quoted.
NeverQuoted(field) == FALSE

\* QUOTE_MINIMAL: a field is quoted when it holds the delimiter, the quote
\* character or a character of the line terminator.
NeedsQuotes(field) ==
    \E i \in 1..Len(field) : field[i] \in {",", "\"", "\r", "\n"}

\* doublequote: every quote character of a quoted field is written twice.
RECURSIVE Doubled(_)
Doubled(field) ==
    IF field = <<>> THEN <<>>
    ELSE (IF Head(field) = "\"" THEN <<"\"", "\"">> ELSE <<Head(field)>>)
         \o Doubled(Tail(field))

QuotedField(field) ==
    IF NeedsQuotes(field) THEN <<"\"">> \o Doubled(field) \o <<"\"">> ELSE field

\* writer.writerow(cells): the fields joined by the delimiter, then "\r\n".
RECURSIVE writerow(_)
writerow(cells) ==
    IF Len(cells) = 1 THEN QuotedField(cells[1]) \o <<"\r", "\n">>
    ELSE QuotedField(Head(cells)) \o <<",">> \o writerow(Tail(cells))

\* The five cells of log_event's row: unix_ts, timestamp, attempt_id, event,
\* info.  unix_ts is a float of whole seconds here.
RowCells(row) ==
    << repr_float(2 * (now \div 1000)), str_int(Elapsed), str_int(row.attempt_id),
       KindText(row.event), CellText(row.info) >>

\* csv.reader, one character c: p is the parser with its state, the field
\* and the row under construction and the rows read so far.  "\r" and "\n"
\* end a record outside quotes and are skipped at the start of a record.
reader_step(p, c) ==
    LET newline == c \in {"\r", "\n"}
        end_record == [state |-> "start_record", field |-> <<>>, row |-> <<>>,
                       rows |-> Append(p.rows, Append(p.row, p.field))]
        end_field == [p EXCEPT !.state = "start_field", !.field = <<>>,
                               !.row = Append(p.row, p.field)]
        add_char == [p EXCEPT !.state = "in_field", !.field = Append(p.field, c)]
    IN  CASE p.state \in {"start_record", "start_field"} ->
                IF newline
                THEN (IF p.state = "start_record" THEN p ELSE end_record)
                ELSE IF c = "\"" THEN [p EXCEPT !.state = "in_quoted_field"]
                ELSE IF c = "," THEN end_field
                ELSE add_char
          [] p.state = "in_field" ->
                IF newline THEN end_record
                ELSE IF c = "," THEN end_field
                ELSE add_char
          [] p.state = "in_quoted_field" ->
                IF c = "\"" THEN [p EXCEPT !.state = "quote_in_quoted_field"]
                ELSE [p EXCEPT !.field = Append(p.field, c)]
          [] OTHER ->                   \* quote_in_quoted_field
                IF c = "\""
                THEN [p EXCEPT !.state = "in_quoted_field", !.field = Append(p.field, c)]
                ELSE IF c = "," THEN end_field
                ELSE IF newline THEN end_record
                ELSE add_char

\* The parser after the characters text[lo..hi], taken in their order: the
\* first half of the range is read to its end, then the second half.
RECURSIVE reader_run(_, _, _, _)
reader_run(p, text, lo, hi) ==
    IF lo > hi THEN p
    ELSE IF lo = hi THEN reader_step(p, text[lo])
    ELSE LET mid == (lo + hi) \div 2
             half == reader_run(p, text, lo, mid)
         IN  IF half.state \in {"start_record", "start_field", "in_field",
                               "in_quoted_field", "quote_in_quoted_field"}
             THEN reader_run(half, text, mid + 1, hi)
             ELSE half

\* csv.reader over the text of the file: the rows, each a sequence of fields.
reader(text) ==
    LET p == reader_run([state |-> "start_record", field |-> <<>>, row |-> <<>>,
                         rows |-> <<>>], text, 1, Len(text))
    IN  IF p.state = "start_record" THEN p.rows
        ELSE Append(p.rows, Append(p.row, p.field))

\* int(text) of decimal digits
RECURSIVE int_of(_)
int_of(text) ==
    IF text = <<>> THEN 0
    ELSE 10 * int_of(SubSeq(text, 1, Len(text) - 1))
         + (CHOOSE d \in 0..9 : Digit(d) = text[Len(text)])

\* float(text) of "<digits>.<digit>", in halves
float_of(text) ==
    2 * int_of(SubSeq(text, 1, Len(text) - 2)) + (IF text[Len(text)] = "5" THEN 1 ELSE 0)

\* A row of the file back as (attempt_id, event, info): the third column an
\* int, the fourth the event name, the fifth a float for PIPE_PASSED and
\* the text itself for any other event.
ParseRow(cells) ==
    LET event == CHOOSE k \in Kinds : KindText(k) = cells[4]
    IN  [attempt_id |-> int_of(cells[3]), event |-> event,
         info |-> IF event = "PIPE_PASSED" THEN Float(float_of(cells[5]))
                  ELSE Str(cells[5])]

\* The records of the file: every row after the header.
ReadBack(text) ==
    LET rows == reader(text)
    IN  [i \in 1..(Len(rows) - 1) |-> ParseRow(rows[i + 1])]

\* EventLogger(...): the file is opened and gets its header.
CsvOpen ==
    /\ pc = "start"
    /\ csv_file = "none"
    /\ writer' = "open"
    /\ csv_file' = "open"
    /\ csv_text' = writerow(Header)
    /\ written' = <<>>
    /\ last_event' = Event("OPEN", "")
    /\ UNCHANGED <<beyond_logger, logger_world, pc, attempt_id, passed_rows>>

\* What main.py passes as additional_info with an event: the score with
\* PIPE_PASSED, nothing with QUIT (info = ''), a str with the others.
Payloads(event) ==
    CASE event = "PIPE_PASSED" -> {Float(h) : h \in 1..MaxHalves}
      [] event = "QUIT" -> {Str(<<>>)}
      [] OTHER -> {Str(text) : text \in FreeTexts}

\* One call of log_event, logger.attempt_id having grown to aid.
CsvRecord ==
    /\ csv_file = "open"
    /\ Len(passed_rows) < MaxCsvRows
    /\ \E aid \in {0, 1, MaxAttemptId} : \E event \in Kinds : \E info \in Payloads(event) :
          LET rows == log_event(<<>>, aid, event, info)
          IN  /\ aid >= attempt_id
              /\ attempt_id' = aid
              /\ written' = rows
              /\ passed_rows' = passed_rows \o rows
              /\ csv_text' = IF rows = <<>> THEN csv_text
                              ELSE csv_text \o writerow(RowCells(rows[1]))
              /\ last_event' = Event("LOG", event)
    /\ UNCHANGED <<beyond_logger, logger_world, pc, writer, csv_file>>

\* logger.close()
CsvClose ==
    /\ csv_file = "open"
    /\ csv_file' = close(csv_file)
    /\ pc' = "exit"
    /\ written' = <<>>
    /\ last_event' = Event("CLOSE", "")
    /\ UNCHANGED <<loop_state, logger_world, attempt_id, writer, csv_vars>>

NextCsv == CsvOpen \/ CsvRecord \/ CsvClose
SpecCsv == Init /\ [][NextCsv]_vars

(***************************************************************************)
(* The supervisor, control.py: main() polls the remote flag once per       *)
(* interval, starts main.py as a child when the flag is set and no child   *)
(* runs, and stops the child when the flag is cleared.  A child is a       *)
(* position in children; proc = 0 is None.                                 *)
(***************************************************************************)
main_vars == <<SCREEN_WIDTH, SCREEN_HEIGHT, pc, bird_movement, game_active,
               previous_game_active, score, high_score, pipe_list,
               bird_rectangle, bird_index, attempt_id, writer, csv_file,
               written, played, totals, restarts, last_event, ticks,
               bird_frames, logger_world, form_vars, csv_vars>>

\* The call of the iteration that raises, if the iteration reaches it.
Faults == {"none", "flag", "heartbeat", "ids", "start", "stop"}

\* iteration when no poll has been the last step.
Idle == [error |-> "none", flag |-> "unread", proc_is_running |-> FALSE,
         heartbeat |-> FALSE, started |-> FALSE, stopped |-> "no"]

\* return proc and proc.poll() is None
is_main_running(p) == p # 0 /\ children[p] = "running"

\* Mutant: `except redis.RedisError' in place of `except Exception'.
CaughtRedisOnly(error) == error \in {"flag", "heartbeat", "ids"}

\* `except Exception as e:' around the body of the loop.
Caught(error) == TRUE

\* Mutant: the heartbeat is written in every iteration.
HeartbeatAlways(running) == TRUE

\* `if proc_is_running: r.set(REDIS_FLAPPY_HEARTBEAT, time.time())'
HeartbeatDue(running) == running

\* Mutant: stop_process gives up when the wait times out.
AfterStopNoKill(in_time) == IF in_time THEN "exited" ELSE "running"

\* stop_process: terminate(), wait(timeout); when the wait times out kill(),
\* wait().  in_time: the child exits within the timeout.
AfterStop(in_time) == "exited"

\* One iteration of `while True:', from check_redis_flag to the sleep.
\* fault: the call that raises; delivered: whether a stop_process that
\* raises has ended the child before it raised.
PollStep(fault, in_time, delivered) ==
    LET running == is_main_running(proc)
        beat == HeartbeatDue(running)
        start == flag /\ ~running
        stop == ~flag /\ running
        error == CASE fault = "flag" -> "flag"
                   [] fault = "heartbeat" /\ beat -> "heartbeat"
                   [] fault = "ids" /\ start -> "ids"
                   [] fault = "start" /\ start -> "start"
                   [] fault = "stop" /\ stop -> "stop"
                   [] OTHER -> "none"
    IN
    /\ supervisor' = IF error = "none" \/ Caught(error) THEN "polling" ELSE "dead"
    /\ IF error = "flag"
          THEN /\ iteration' = [Idle EXCEPT !.error = "flag"]
               /\ UNCHANGED <<proc, children, stops>>
          ELSE /\ iteration' =
                    [error |-> error,
                     flag |-> IF flag THEN "true" ELSE "false",
                     proc_is_running |-> running,
                     heartbeat |-> beat /\ error # "heartbeat",
                     started |-> start /\ error = "none",
                     stopped |-> IF stop /\ error = "none"
                                   THEN IF in_time THEN "terminate" ELSE "kill"
                                   ELSE "no"]
               /\ IF error = "none" /\ start
                     THEN /\ children' = Append(children, "running")
                          /\ proc' = Len(children) + 1
                          /\ UNCHANGED stops
                     ELSE IF error = "none" /\ stop
                     THEN /\ children' = [children EXCEPT ![proc] = AfterStop(in_time)]
                          /\ proc' = 0
                          /\ stops' = stops + 1
                     ELSE IF error = "stop" /\ delivered
                     THEN /\ children' = [children EXCEPT ![proc] = "exited"]
                          /\ UNCHANGED <<proc, stops>>
                     ELSE UNCHANGED <<proc, children, stops>>
    /\ UNCHANGED <<main_vars, flag, flag_changes, self_exits>>

Poll ==
    /\ supervisor = "polling"
    /\ \E fault \in Faults : \E in_time, delivered \in BOOLEAN :
          PollStep(fault, in_time, delivered)

\* The remote flag is set or cleared by its owner.
FlagChanges ==
    /\ flag_changes < MaxFlagChanges
    /\ flag' = ~flag
    /\ flag_changes' = flag_changes + 1
    /\ iteration' = Idle
    /\ UNCHANGED <<main_vars, proc, children, stops, self_exits, supervisor>>

\* The child ends by itself: the player quits the game, or main.py fails.
ChildExits ==
    /\ self_exits < MaxSelfExits
    /\ is_main_running(proc)
    /\ children' = [children EXCEPT ![proc] = "exited"]
    /\ self_exits' = self_exits + 1
    /\ iteration' = Idle
    /\ UNCHANGED <<main_vars, flag, flag_changes, proc, stops, supervisor>>

NextControl == Poll \/ FlagChanges \/ ChildExits
SpecControl == Init /\ [][NextControl]_vars

(***************************************************************************)
(* Properties                                                              *)
(***************************************************************************)
\* A SPACE key press or a pointer press: the flap-equivalent inputs.
IsPress(e) == e.type = "MOUSEBUTTONDOWN" \/ (e.type = "KEYDOWN" /\ e.key = "SPACE")

\* What check_collision will report in the frame that starts in this state.
CollisionAhead == check_collision(pipe_list, Fall(bird_rectangle, Gravity(bird_movement)))

\* C1: a collision ends the attempt exactly once.  Every attempt that has
\* ended (restarts, less the one still running) played one death sound and
\* wrote one COLLISION row, no step plays or writes two, and no further one
\* is produced while the game is inactive.
C1_CollisionEndsAttemptOnce ==
    /\ totals.death_sounds = restarts - (IF game_active THEN 1 ELSE 0)
    /\ totals.collision_rows = totals.death_sounds
    /\ PlaysOf(played, "death") <= 1
    /\ Cardinality(RowsOf(written, "COLLISION")) <= 1
    /\ (PlaysOf(played, "death") = 1) <=> (RowsOf(written, "COLLISION") # {})
    /\ RowsOf(written, "COLLISION") # {} => ~game_active /\ last_event.type = "FRAME"

\* Two attempts have ended in a collision and an inactive frame has followed.
C1_Witness ==
    /\ restarts = 2 /\ ~game_active
    /\ totals.collision_rows = 2 /\ totals.death_sounds = 2
    /\ last_event.type = "FRAME" /\ written = <<>>

\* C2: a SPACE key press or a pointer press handled while inactive makes the
\* game active, empties pipe_list, zeroes score and velocity and puts the
\* bird's centre back at the origin.
C2_RestartResets ==
    [][(pc = "loop" /\ pc' = "loop" /\ ~game_active /\ IsPress(last_event'))
        => /\ game_active'
           /\ pipe_list' = <<>>
           /\ score' = 0
           /\ centerx(bird_rectangle') = BirdOriginX
           /\ centery(bird_rectangle') = BirdOriginY
           /\ bird_movement' = 0]_vars

\* The state right after a second restart (no event and no frame since), the
\* attempt before it having scored.
C2_Witness ==
    /\ restarts = 2 /\ IsPress(last_event) /\ game_active
    /\ high_score > 0 /\ score = 0 /\ pipe_list = <<>>

\* C3 (as claimed): once an event has been handled after the latest restart
\* (previous_game_active is set again), attempt_id equals the number of
\* restarts performed.
C3_AttemptIdCountsRestarts == previous_game_active => attempt_id = restarts

\* C4: the game starts inactive; game_active rises only in the handling of
\* a SPACE key press or a pointer press, and falls only in a frame in which
\* check_collision reports a collision.
C4_TwoStateMachine ==
    /\ ~game_active
    /\ [][/\ (~game_active /\ game_active') => IsPress(last_event')
          /\ (game_active /\ ~game_active' /\ pc' = "loop")
                => last_event'.type = "FRAME" /\ CollisionAhead # "none"]_vars

\* An attempt was started by a press and a frame has just ended it.
C4_Witness ==
    /\ restarts >= 1 /\ ~game_active /\ last_event.type = "FRAME"
    /\ RowsOf(written, "COLLISION") # {}

\* The bird's fixed x.
BirdX == scale_x(BASE_BIRD_X)
\* The pipes of pipes whose centre is at or left of the bird's x.
Behind(pipes) == {i \in 1..Len(pipes) : centerx(pipes[i]) <= BirdX}
\* A frame of the running game, taken while the attempt is active.
ActiveTick == pc = "loop" /\ pc' = "loop" /\ game_active /\ last_event'.type = "FRAME"
\* The handling of a press while the game is inactive.
RestartPress == pc = "loop" /\ pc' = "loop" /\ ~game_active /\ IsPress(last_event')

\* C5: in an active tick the pipes whose centre moved from right of the
\* bird's x to at-or-left of it are exactly those in the scoring window and
\* each adds 0.5 (one unit) to score; pipes only move left, so each is
\* counted once: score is always the number of pipes at or left of the bird;
\* the two pipes of a pair cross in the same tick; no other step of an
\* attempt changes score.
C5_Scoring ==
    /\ [](score = Cardinality(Behind(pipe_list)))
    /\ [][(pc = "loop" /\ pc' = "loop" /\ game_active) =>
            IF last_event'.type = "FRAME"
            THEN LET crossed == Behind(pipe_list') \ Behind(pipe_list)
                 IN  /\ Len(pipe_list') = Len(pipe_list)
                     /\ \A i \in 1..Len(pipe_list) :
                           /\ centerx(pipe_list'[i]) <= centerx(pipe_list[i])
                           /\ (i \in crossed) <=> PipeScores(pipe_list'[i])
                           /\ (i % 2 = 1) => ((i \in crossed) <=> (i + 1 \in crossed))
                     /\ score' = score + Cardinality(crossed)
            ELSE score' = score]_vars

\* The tick in which a pair is passed: a whole point and its PIPE_PASSED row.
C5_Witness ==
    /\ game_active /\ last_event.type = "FRAME" /\ score = 2
    /\ Behind(pipe_list) = {1, 2}
    /\ RowsOf(written, "PIPE_PASSED") # {} /\ PlaysOf(played, "score") = 1

\* C6 (as claimed): when a restart resets score, high_score is the maximum
\* of its value before the attempt and the attempt's final score.
C6_HighScoreAtRestart ==
    [][RestartPress => high_score' = update_score(score, high_score)
                       /\ high_score' >= score]_vars

\* C7: within an attempt no step lowers score; the only step that lowers it
\* is the restart, which sets it to 0.
C7_ScoreMonotonic ==
    [][(pc' = "loop" /\ score' < score) => (RestartPress /\ score' = 0)]_vars

\* The second attempt has scored after the first one did and was reset.
C7_Witness ==
    /\ restarts = 2 /\ game_active /\ score > 0 /\ high_score > 0

\* C8: a press handled while the game is active sets bird_movement to
\* -FLAP_STRENGTH whatever it was, and leaves score, pipes, bird position
\* and game_active alone.
C8_Flap ==
    [][(pc = "loop" /\ pc' = "loop" /\ game_active /\ IsPress(last_event'))
        => /\ bird_movement' = -(FLAP_STRENGTH * QUARTER)
           /\ UNCHANGED <<score, pipe_list, bird_rectangle, game_active>>]_vars

\* A flap has just been handled in an attempt that has fallen and scored.
C8_Witness ==
    /\ IsPress(last_event) /\ game_active /\ played = <<"flap">>
    /\ bird_movement = -(FLAP_STRENGTH * QUARTER)
    /\ score > 0 /\ centery(bird_rectangle) # BirdOriginY

\* C9 (as claimed): in every active tick with a positive velocity after
\* gravity, centery is strictly greater after the tick than before.
C9_FallingStrictlyLowers ==
    [][(ActiveTick /\ bird_movement' > 0)
        => centery(bird_rectangle') > centery(bird_rectangle)]_vars

\* C9 (amended): in every active tick with a positive velocity after gravity
\* centery does not decrease; it strictly increases when the velocity is at
\* least one pixel per tick, and stays the same when the velocity is below
\* one pixel per tick and centery is not negative.
C9_FallingLowers ==
    [][(ActiveTick /\ bird_movement' > 0)
        => /\ centery(bird_rectangle') >= centery(bird_rectangle)
           /\ bird_movement' >= QUARTER
                => centery(bird_rectangle') > centery(bird_rectangle)
           /\ (bird_movement' < QUARTER /\ centery(bird_rectangle) >= 0)
                => centery(bird_rectangle') = centery(bird_rectangle)]_vars

\* Five ticks of free fall after a restart: three without movement, two of
\* one pixel each.
C9_Witness ==
    /\ game_active /\ last_event.type = "FRAME" /\ bird_movement = 5 * GRAVITY
    /\ centery(bird_rectangle) = BirdOriginY + 2

\* Quarters of a pixel covered in n ticks from velocity v0 (in quarters):
\* the sum over k = 1..n of (v0 + k*GRAVITY).
RECURSIVE ClosedForm(_, _)
ClosedForm(v0, n) == IF n = 0 THEN 0 ELSE ClosedForm(v0, n - 1) + v0 + n * GRAVITY

\* Pixels the rectangle moves in n ticks of free fall from rest: each tick
\* adds the velocity k*GRAVITY converted to an int.
RECURSIVE FallSum(_)
FallSum(n) == IF n = 0 THEN 0 ELSE FallSum(n - 1) + Trunc(n * GRAVITY, QUARTER)

Count(rows, event) == Cardinality(RowsOf(rows, event))

\* What every step writes, whatever the event: one SESSION_INFO at the
\* session start, one KEY_PRESS per key or pointer press handled while
\* active and none while inactive, one COLLISION per collision, one
\* PIPE_PASSED per pipe pair passed, one QUIT on quitting, and nothing else.
RecordsOfStep ==
    LET e == last_event'
        pressed == pc = "loop" /\ e.type \in {"KEYDOWN", "MOUSEBUTTONDOWN"}
        frame == pc = "loop" /\ e.type = "FRAME"
        key_presses == IF pressed /\ game_active THEN 1 ELSE 0
        collisions == IF frame /\ game_active /\ ~game_active' THEN 1 ELSE 0
        pairs == IF frame THEN (score' \div 2) - (score \div 2) ELSE 0
        quits == IF pc = "loop" /\ pc' = "exit" THEN 1 ELSE 0
        starts == IF pc = "start" THEN 1 ELSE 0
    IN  /\ Count(written', "SESSION_INFO") = starts
        /\ Count(written', "KEY_PRESS") = key_presses
        /\ Count(written', "COLLISION") = collisions
        /\ Count(written', "PIPE_PASSED") = pairs
        /\ Count(written', "QUIT") = quits
        /\ Len(written') = starts + key_presses + collisions + pairs + quits

\* C11 (as claimed): every state-changing event produces exactly one record
\* of its kind, and no handled event of the queue produces two records.
C11_OneRecordPerEvent ==
    [][/\ RecordsOfStep
       /\ last_event'.type # "FRAME" => Len(written') <= 1]_vars

\* C11 (amended): every state-changing event produces exactly one record of
\* its kind; a handled event of the queue produces at most one record,
\* except the ESCAPE key handled while active, which is a key press and a
\* quit and produces a KEY_PRESS followed by a QUIT.
C11_OneRecordPerGameEvent ==
    [][/\ RecordsOfStep
       /\ last_event'.type # "FRAME" =>
             IF game_active /\ last_event' = Event("KEYDOWN", "ESCAPE")
             THEN /\ Len(written') = 2
                  /\ written'[1].event = "KEY_PRESS"
                  /\ written'[1].info = Str("ESCAPE")
                  /\ written'[2].event = "QUIT"
             ELSE Len(written') <= 1]_vars

\* ESCAPE has just been handled in a running attempt: two rows, then exit.
C11_Witness ==
    /\ pc = "exit" /\ last_event = Event("KEYDOWN", "ESCAPE")
    /\ Len(written) = 2 /\ csv_file = "closed"

\* The payloads of the COLLISION rows of a step.
CollisionKinds(rows) == {rows[i].info : i \in RowsOf(rows, "COLLISION")}

RECURSIVE PassedPayloads(_)
PassedPayloads(rows) ==
    IF rows = <<>> THEN <<>>
    ELSE IF Head(rows).event = "PIPE_PASSED"
         THEN <<Head(rows).info>> \o PassedPayloads(Tail(rows))
         ELSE PassedPayloads(Tail(rows))

\* C19: between ticks score is a whole number, the number of pairs passed
\* in the attempt.  A tick in which n - m pairs pass the bird takes it from
\* m to n and writes the PIPE_PASSED rows with payloads m+1, ..., n (as
\* floats), in this order, and plays as many reward sounds; no other step
\* writes a PIPE_PASSED row or plays the sound.  So the payloads of an
\* attempt are 1, 2, 3, ... without gap or repeat.
C19_PipePassedRecords ==
    /\ [](score % 2 = 0)
    /\ [][(pc = "loop" /\ pc' = "loop") =>
            LET m == score \div 2
                n == IF ActiveTick THEN score' \div 2 ELSE m
                passed == IF ActiveTick
                          THEN Behind(pipe_list') \ Behind(pipe_list) ELSE {}
            IN  /\ n >= m
                /\ Cardinality(passed) = 2 * (n - m)
                /\ PassedPayloads(written') = [k \in 1..(n - m) |-> Float(2 * (m + k))]
                /\ PlaysOf(played', "score") = n - m]_vars

\* The second pair of an attempt has just been passed: payload 2.
C19_Witness ==
    /\ game_active /\ last_event.type = "FRAME" /\ score = 4
    /\ PassedPayloads(written) = <<Float(4)>> /\ PlaysOf(played, "score") = 1

\* C14: when the log file could not be created the logger has no writer and
\* no file, no step writes a row, and the game goes on as with a logger:
\* a press while active flaps, a press while inactive starts the attempt, a
\* passed pair scores with its sound, a collision ends the attempt with its
\* sound, and quitting (log_quit, close) ends the process.
C14_LoggerFailsSoft ==
    /\ [](pc # "start" => (writer = "none" /\ csv_file = "none" /\ written = <<>>))
    /\ [](totals.death_sounds = restarts - (IF game_active THEN 1 ELSE 0))
    /\ [](score = Cardinality(Behind(pipe_list)))
    /\ [][pc = "loop" =>
            /\ (IsPress(last_event') /\ game_active)
                  => (bird_movement' = -(FLAP_STRENGTH * QUARTER) /\ played' = <<"flap">>)
            /\ (IsPress(last_event') /\ ~game_active)
                  => (game_active' /\ score' = 0 /\ pipe_list' = <<>>)
            /\ (last_event'.type = "FRAME" /\ game_active)
                  => /\ PlaysOf(played', "score") = (score' - score) \div 2
                     /\ PlaysOf(played', "death") = (IF game_active' THEN 0 ELSE 1)
            /\ (last_event'.type = "QUIT" \/ last_event' = Event("KEYDOWN", "ESCAPE"))
                  => pc' = "exit"]_vars

\* Without a file, an attempt that passed a pair has just ended in a
\* collision: the sound is played, the score stands, nothing is written.
C14_Witness ==
    /\ writer = "none" /\ csv_file = "none" /\ pc = "loop"
    /\ last_event.type = "FRAME" /\ ~game_active /\ score = 2
    /\ PlaysOf(played, "death") = 1 /\ written = <<>>

\* C13: with placeholder assets the session and the main loop run through
\* every later event, every BIRDFLAP timer event included, and never reach an
\* unhandled error.
C13_FallbackKeepsRunning == pc # "crashed"

\* C12: records are appended in the order of handling with non-decreasing
\* elapsed-time values; SESSION_INFO is the first record, with attempt_id 0;
\* a QUIT record is the last record, the logger is closed after it and
\* nothing more is written.
C12_Ordered ==
    /\ \A i, j \in 1..Len(file) : i < j => file[i].timestamp <= file[j].timestamp
    /\ file # <<>> => file[1].event = "SESSION_INFO" /\ file[1].attempt_id = 0
    /\ \A i \in 1..Len(file) :
          file[i].event = "QUIT" => i = Len(file) /\ csv_file = "closed"
C12_LogOrdering ==
    []C12_Ordered /\ [][file' = file \/ \E row \in {Stamp(written'[i]) : i \in 1..Len(written')} :
                                        file' = Append(file, row)]_vars

\* C15: after a log_event call whose write failed, the game loop goes on and
\* no later log_event call of the session writes a record.
C15_WriteFailureDisablesLogging ==
    [](pc # "crashed") /\ [][write_failed => file' = file]_vars

\* How often the flag has gone false -> true (it starts false).
Rises == (flag_changes + 1) \div 2
Alive == {i \in 1..Len(children) : children[i] = "running"}

\* At most one child is alive; stop_process is never counted for a child
\* that was not started.
OneChildAtATime == Cardinality(Alive) <= 1 /\ stops <= Len(children)

\* A child is started only by an iteration that read the flag as true and
\* observed no child running.
StartsWhenNoneRuns ==
    Len(children') > Len(children) =>
        /\ Alive = {}
        /\ iteration'.flag = "true" /\ ~iteration'.proc_is_running
        /\ iteration'.started

\* When stop_process returns the child it was called for has exited, by
\* terminate or by kill.
StoppedMeansExited ==
    stops' # stops =>
        /\ stops' = stops + 1
        /\ proc # 0 /\ children'[proc] = "exited"
        /\ iteration'.stopped \in {"terminate", "kill"}

C17_ErrorsNeverFatal ==
    /\ [](supervisor = "polling")
    /\ [][iteration'.error = "flag"
             => children' = children /\ proc' = proc /\ stops' = stops]_vars

\* The flag is cleared and the child runs, so a stop is due, but the flag
\* read has failed: the child still runs and the supervisor still polls.
C17_Witness ==
    /\ iteration.error = "flag" /\ supervisor = "polling"
    /\ ~flag /\ is_main_running(proc) /\ stops = 0

C25_PipeSequenceGrowth ==
    [][(pc = "loop" /\ pc' = "loop") =>
        LET n == Len(pipe_list)
        IN  IF last_event'.type = "SPAWNPIPE"
            THEN /\ Len(pipe_list') = n + 2
                 /\ SubSeq(pipe_list', 1, n) = pipe_list
                 /\ centerx(pipe_list'[n + 1]) = scale_x(BASE_PIPE_SPAWN_X)
                 /\ centerx(pipe_list'[n + 2]) = scale_x(BASE_PIPE_SPAWN_X)
                 /\ top(pipe_list'[n + 1]) = bottom(pipe_list'[n + 2]) + PIPE_GAP
            ELSE IF RestartPress
            THEN pipe_list' = <<>>
            ELSE Len(pipe_list') = n]_vars

\* A pair appended, in the inactive game after the attempt, behind a pair
\* whose left edge has left the screen.
C25_Witness ==
    /\ last_event.type = "SPAWNPIPE" /\ ~game_active /\ restarts = 1
    /\ Len(pipe_list) = 4 /\ pipe_list[1].x < 0
    /\ centerx(pipe_list[3]) = scale_x(BASE_PIPE_SPAWN_X)

\* The pipes of pipes in the scoring window.
InWindow(pipes) == {i \in 1..Len(pipes) : PipeScores(pipes[i])}

\* C26: an active tick adds gravity to the velocity, then moves the bird by
\* the new velocity, then tests the collision of the moved bird against the
\* pipes as they were before this tick's movement, then moves the pipes,
\* then scores the moved pipes; movement and scoring also run in the tick
\* that detects the collision, and in no later tick before a restart.
C26_TickOrder ==
    [][(pc = "loop" /\ pc' = "loop" /\ last_event'.type = "FRAME") =>
        IF game_active
        THEN /\ bird_movement' = bird_movement + GRAVITY
             /\ bird_rectangle' = Fall(bird_rectangle, bird_movement')
             /\ game_active' <=> check_collision(pipe_list, bird_rectangle') = "none"
             /\ pipe_list' = move_pipes(pipe_list)
             /\ score' = score + Cardinality(InWindow(pipe_list'))
        ELSE /\ ~game_active'
             /\ UNCHANGED <<bird_movement, bird_rectangle, pipe_list, score>>]_vars

\* The tick that ends the attempt has moved the pipes and scored a pair.
C26_Witness ==
    /\ last_event.type = "FRAME" /\ ~game_active
    /\ RowsOf(written, "COLLISION") # {} /\ RowsOf(written, "PIPE_PASSED") # {}
    /\ score = 2 /\ InWindow(pipe_list) = {1, 2}

\* pipe_list is a sequence of pairs whose two members have the same centre x.
Paired(pipes) ==
    /\ Len(pipes) % 2 = 0
    /\ \A i \in 1..Len(pipes) : i % 2 = 1 => centerx(pipes[i]) = centerx(pipes[i + 1])

\* C27: after every event and every tick pipe_list has even length and the
\* two rectangles of each pair have the same centre x; a tick scores both
\* members of a pair or neither, and score is a whole number after every
\* tick.
C27_PairsAndWholeScore ==
    /\ [](Paired(pipe_list) /\ score % 2 = 0)
    /\ [][ActiveTick =>
            \A i \in 1..Len(pipe_list') :
                i % 2 = 1 => (i \in InWindow(pipe_list') <=> i + 1 \in InWindow(pipe_list'))]_vars

\* The tick in which the first of two pairs, spawned at different times, is
\* scored as a whole.
C27_Witness ==
    /\ last_event.type = "FRAME" /\ game_active /\ Len(pipe_list) = 4
    /\ centerx(pipe_list[1]) # centerx(pipe_list[3])
    /\ InWindow(pipe_list) = {1, 2} /\ score = 2

\* The handling of a SPAWNPIPE or BIRDFLAP timer event.
TimerEvent ==
    pc = "loop" /\ pc' = "loop" /\ last_event'.type \in {"SPAWNPIPE", "BIRDFLAP"}
\* A frame taken while the game is inactive.
InactiveTick ==
    pc = "loop" /\ pc' = "loop" /\ ~game_active /\ last_event'.type = "FRAME"

\* C28: an inactive tick, and a SPAWNPIPE or BIRDFLAP event at any time, leave
\* the bird's vertical position, its velocity, the score, the pipes already
\* in pipe_list, attempt_id and game_active unchanged and write no record;
\* an inactive tick changes no game variable but high_score.
C28_NoGameStateChange ==
    [][/\ (TimerEvent \/ InactiveTick) =>
            /\ centery(bird_rectangle') = centery(bird_rectangle)
            /\ bird_rectangle'.y = bird_rectangle.y
            /\ SubSeq(pipe_list', 1, Len(pipe_list)) = pipe_list
            /\ written' = <<>>
            /\ UNCHANGED <<bird_movement, score, attempt_id, game_active>>
       /\ InactiveTick =>
            UNCHANGED <<bird_movement, bird_rectangle, bird_index, pipe_list,
                        score, attempt_id, game_active, previous_game_active>>]_vars

\* C29: every KEY_PRESS, COLLISION and PIPE_PASSED record carries an
\* attempt_id of at least 1 that equals the number of restarts performed so
\* far in the session.
C29_RecordsCarryTheirAttempt ==
    pc = "loop" =>
        \A i \in 1..Len(written) :
            written[i].event \in {"KEY_PRESS", "COLLISION", "PIPE_PASSED"}
                => written[i].attempt_id >= 1 /\ written[i].attempt_id = restarts

\* What logger.csv_file can be.
FileStates == {"none", "open", "closed"}

\* C24: close() called once or several times, with or without an opened
\* file, leaves the logger as a single call leaves it, with no file open,
\* and never raises.
C24_CloseIdempotent ==
    /\ [](/\ \A f \in FileStates :
                close(f) \in {"none", "closed"} /\ close(close(f)) = close(f)
          /\ pc = "exit" => csv_file \in {"none", "closed"}
          /\ pc # "crashed")
    /\ [][last_event'.type = "CLOSE"
            => UNCHANGED <<pc, csv_file, writer, attempt_id, file>>]_vars

\* close() has been called again on the closed file of a session that wrote
\* its QUIT record.
C24_Witness ==
    /\ pc = "exit" /\ last_event.type = "CLOSE" /\ csv_file = "closed"
    /\ file # <<>> /\ file[Len(file)].event = "QUIT"

\* C21: after any sequence of key events in the session form the subject id
\* and the run id hold at most 24 characters and the comments at most 80,
\* and so do the values the form returns.
C21_FormLengthLimits ==
    /\ [](/\ fields[1] <= 24 /\ fields[2] <= 24 /\ fields[3] <= 80
          /\ metadata # <<>> =>
                metadata[1] <= 24 /\ metadata[2] <= 24 /\ metadata[3] <= 80)
    /\ [][(metadata = <<>> /\ metadata' # <<>>) =>
            \A i \in 1..3 : metadata'[i] <= fields[i]]_vars

\* The form has returned three values of the greatest length.
C21_Witness == metadata = <<24, 24, 80>>

\* A key the form has just handled (SpecFormKeys).
FormKey(key) == last_event'.type = "KEYDOWN" /\ last_event'.key = key

\* C22: in the session form ENTER on the first or the second field moves the
\* focus to the next field and ENTER on the last field submits; ESCAPE
\* submits from any field and leaves every value as it is, so that a field
\* nobody typed in is returned empty; TAB moves the focus to the next field,
\* from the last to the first, and never submits; done is set by nothing but
\* ENTER on the last field or ESCAPE, and the form returns only when done.
C22_FormNavigation ==
    [][ /\ (FormKey("RETURN") /\ current_field < FIELD_COUNT - 1)
            => (current_field' = current_field + 1 /\ UNCHANGED <<fields, done>>)
        /\ (FormKey("RETURN") /\ current_field = FIELD_COUNT - 1)
            => (done' /\ UNCHANGED <<fields, current_field>>)
        /\ FormKey("ESCAPE") => (done' /\ UNCHANGED <<fields, current_field>>)
        /\ FormKey("TAB")
            => /\ current_field' = IF current_field = FIELD_COUNT - 1
                                    THEN 0 ELSE current_field + 1
               /\ UNCHANGED <<fields, done>>
        /\ (~done /\ done')
            => \/ FormKey("ESCAPE")
               \/ FormKey("RETURN") /\ current_field = FIELD_COUNT - 1
        /\ (metadata = <<>> /\ metadata' # <<>>)
            => /\ done
               /\ \A i \in 1..FIELD_COUNT : fields[i] = 0 => metadata'[i] = 0
      ]_vars

\* ESCAPE has submitted from the second field, the first one filled and the
\* other two untouched.
C22_Witness ==
    /\ done
    /\ last_event = Event("KEYDOWN", "ESCAPE")
    /\ current_field = 1
    /\ fields = <<1, 0, 0>>

====
